---- MODULE Spec2Model ----
(***************************************************************************)
(* Model of Wirtualki.py: the two VM handlers (VMwareHandler,              *)
(* VirtualBoxHandler), the directory scan they run through os.walk, and    *)
(* the three callbacks of VMManagerApp (on_find_vms, on_start_vm,          *)
(* on_stop_vm).  Strings are sequences of one-character strings, so that   *)
(* str.endswith, os.path.join and os.path.basename are computed.           *)
(***************************************************************************)
EXTENDS Integers, Sequences, FiniteSets, TLC

VARIABLES
    fs,               \* the directory tree on disk: node -> entry
    stdout,           \* sys.stdout: "ok", "ascii" (cannot encode NonAscii) or "broken"
    directory_entry,  \* text of self.directory_entry
    vm_list_store,    \* rows [name, path] of self.vm_list_store
    selection,        \* selected row of self.vm_list (0: none)
    handlers,         \* instance attributes of the two handler objects
    pc,               \* position of the running callback, "idle" between callbacks
    directory,        \* on_find_vms: local `directory`
    top_node,         \* the node the text `directory` names on disk
    stack,            \* os.walk: directories still to be scanned, next first, each
                      \* as its path and the node that path names
    vms,              \* find_vms: local `vms` of the running scan
    visited,          \* os.walk: how often each node was yielded as `root` in the running scan
    result,           \* value returned by the last completed find_vms of each handler
    scanned,          \* argument of the last completed find_vms of each handler
    request,          \* the callback that ran last (or is running) and its input
    calls,            \* the handler operations that callback invoked, in order
    outcome           \* how that callback's handler operation ended

vars == <<fs, stdout, directory_entry, vm_list_store, selection, handlers, pc,
          directory, top_node, stack, vms, visited, result, scanned,
          request, calls, outcome>>

-----------------------------------------------------------------------------
(* Strings *)

Str_vmx == <<".", "v", "m", "x">>
Str_vbox == <<".", "v", "b", "o", "x">>
Slash == "/"

\* a character that only a Unicode-capable output stream can encode
NonAscii == "U+0142"

\* the test `suffix in s` in place of s.endswith(suffix)
endswith_anywhere(s, suffix) ==
    \E i \in 1..Len(s) :
        i + Len(suffix) - 1 <= Len(s) /\ SubSeq(s, i, i + Len(suffix) - 1) = suffix

\* str.endswith(suffix)
endswith(s, suffix) ==
    /\ Len(s) >= Len(suffix)
    /\ SubSeq(s, Len(s) - Len(suffix) + 1, Len(s)) = suffix

\* the extension tested by VMwareHandler.find_vms
VMwareExt == Str_vmx

\* VirtualBoxHandler.find_vms testing the extension of VMwareHandler
VirtualBoxExt_copied == Str_vmx

\* the extension tested by VirtualBoxHandler.find_vms
VirtualBoxExt == Str_vbox

Handlers == {"vmware", "virtualbox"}

HandlerExt(h) == IF h = "vmware" THEN VMwareExt ELSE VirtualBoxExt

\* posixpath.join(a, b) for two arguments
join(a, b) ==
    IF Len(b) > 0 /\ b[1] = Slash THEN b
    ELSE IF Len(a) = 0 \/ a[Len(a)] = Slash THEN a \o b
    ELSE a \o <<Slash>> \o b

\* str.rfind('/') + 1: the index after the last slash, 0 when there is none
RECURSIVE rfind_plus1(_, _)
rfind_plus1(p, i) ==
    IF i = 0 THEN 0
    ELSE IF p[i] = Slash THEN i
    ELSE rfind_plus1(p, i - 1)

\* a basename that keeps the last slash
basename_with_slash(p) ==
    IF rfind_plus1(p, Len(p)) = 0 THEN p ELSE SubSeq(p, rfind_plus1(p, Len(p)), Len(p))

\* posixpath.basename(p)
basename(p) == SubSeq(p, rfind_plus1(p, Len(p)) + 1, Len(p))

-----------------------------------------------------------------------------
(* The directory tree *)

NoNode == "none"
Nodes == {"root", "a", "f1", "b", "f2", "l"}

\* names a file of the tree may have
FileNames ==
    { <<"x">> \o Str_vmx,                    \* x.vmx
      <<"y">> \o Str_vbox,                   \* y.vbox
      Str_vmx,                               \* .vmx
      <<"x">> \o Str_vmx \o <<".", "b">>,    \* x.vmx.b
      <<"x", ".", "V", "M", "X">>,           \* x.VMX
      <<NonAscii>> \o Str_vbox,              \* a name outside ASCII, ending .vbox
      <<"r", ".", "t">> }                    \* r.t

DirNames == { <<"b">>, <<"d">> \o Str_vmx }

LinkName == <<"l">> \o Str_vbox

LinkTargets == {"a", "b", "f2", "l", NoNode}

Entry(name, kind, parent, target, readable) ==
    [name |-> name, kind |-> kind, parent |-> parent, target |-> target,
     readable |-> readable]

\* root/ a/ { f1, b/ { f2, l -> t } }
Tree(n1, nb, n2, t, ra, rb) ==
    [n \in Nodes |->
        CASE n = "root" -> Entry(<<>>, "dir", NoNode, NoNode, TRUE)
          [] n = "a"    -> Entry(<<"a">>, "dir", "root", NoNode, ra)
          [] n = "f1"   -> Entry(n1, "file", "a", NoNode, TRUE)
          [] n = "b"    -> Entry(nb, "dir", "a", NoNode, rb)
          [] n = "f2"   -> Entry(n2, "file", "b", NoNode, TRUE)
          [] n = "l"    -> Entry(LinkName, "link", "b", t, TRUE)]

\* names of the file in the inner directory
InnerFileNames == { <<"x">> \o Str_vmx, <<"y">> \o Str_vbox, <<"r", ".", "t">> }

\* the trees on disk: every combination of names, and every combination of
\* link target and directory permissions
Trees ==
    { Tree(n1, nb, n2, "a", TRUE, TRUE) :
        n1 \in FileNames, nb \in DirNames, n2 \in InnerFileNames }
    \union
    { Tree(<<"x">> \o Str_vmx, nb, <<"y">> \o Str_vbox, t, ra, rb) :
        nb \in DirNames, t \in LinkTargets, ra \in BOOLEAN, rb \in BOOLEAN }

Children(f, d) == {n \in Nodes : f[n].parent = d}

\* the node a symbolic link finally points to, NoNode when it dangles or loops
RECURSIVE FollowLinks(_, _, _)
FollowLinks(f, n, seen) ==
    IF n = NoNode \/ n \in seen THEN NoNode
    ELSE IF f[n].kind = "link" THEN FollowLinks(f, f[n].target, seen \union {n})
    ELSE n

\* os.path.islink
islink(f, n) == f[n].kind = "link"

\* DirEntry.is_dir(): follows symbolic links
is_dir(f, n) ==
    LET r == FollowLinks(f, n, {}) IN r # NoNode /\ f[r].kind = "dir"

\* the components of a path between its slashes
RECURSIVE Components(_, _, _)
Components(p, i, cur) ==
    IF i > Len(p) THEN (IF cur = <<>> THEN <<>> ELSE <<cur>>)
    ELSE IF p[i] = Slash
         THEN (IF cur = <<>> THEN <<>> ELSE <<cur>>) \o Components(p, i + 1, <<>>)
         ELSE Components(p, i + 1, Append(cur, p[i]))

\* path resolution from node cur, following symbolic links on the way
RECURSIVE Lookup(_, _, _)
Lookup(f, cur, comps) ==
    IF cur = NoNode THEN NoNode
    ELSE IF comps = <<>> THEN cur
    ELSE IF f[cur].kind # "dir" \/ ~f[cur].readable THEN NoNode
    ELSE LET hit == {n \in Children(f, cur) : f[n].name = Head(comps)} IN
         IF hit = {} THEN NoNode
         ELSE Lookup(f, FollowLinks(f, CHOOSE n \in hit : TRUE, {}), Tail(comps))

\* the node a path names (the root directory is also the working directory)
Resolve(f, p) ==
    IF p = <<>> THEN NoNode ELSE Lookup(f, "root", Components(p, 1, <<>>))

\* the longest path the system accepts (PATH_MAX, scaled down)
PathMax == 40

\* os.scandir(p) succeeds, for p naming node n: a directory that can be read
ScanOk(f, p, n) ==
    Len(p) <= PathMax /\ n # NoNode /\ f[n].kind = "dir" /\ f[n].readable

\* os.scandir(top) succeeds
CanScan(f, p) == ScanOk(f, p, Resolve(f, p))

-----------------------------------------------------------------------------
(* os.walk and find_vms *)

\* all orders in which os.scandir may list the entries S
Orders(S) ==
    {o \in [1..Cardinality(S) -> S] : \A i, j \in 1..Cardinality(S) : o[i] = o[j] => i = j}

\* os.walk(directory, followlinks=True)
followlinks_on == TRUE

\* os.walk(directory): followlinks is left at its default, False
followlinks == FALSE

\* os.walk: whether the walk descends into the entry n of `dirs`
Descend(f, n) == followlinks \/ ~islink(f, n)

\* a scan whose OSError reaches the caller (os.listdir, or an onerror that raises)
walk_onerror_raising == "raise"

\* os.walk(directory): onerror is left at its default, None, so an OSError of
\* os.scandir ends the scan of that directory silently ("ignore"); "raise"
\* would let it reach the caller
walk_onerror == "ignore"

\* the paths find_vms appends for one yield (root, dirs, files) of os.walk
Matches(f, root, files, ext) ==
    LET hit(n) == endswith(f[n].name, ext)
        m == SelectSeq(files, hit)
    IN [i \in 1..Len(m) |-> join(root, f[m[i]].name)]

\* the directories os.walk goes on to after yielding (root, dirs, files)
SubWalks(f, root, dirs) ==
    LET go(n) == Descend(f, n)
        d == SelectSeq(dirs, go)
    IN [i \in 1..Len(d) |-> [path |-> join(root, f[d[i]].name),
                              node |-> FollowLinks(f, d[i], {})]]

\* find_vms starts: vms = [] and os.walk(directory) begins at directory
WalkStart(h) ==
    /\ stack' = <<[path |-> directory', node |-> top_node']>>
    /\ vms' = <<>>
    /\ visited' = [n \in Nodes |-> 0]
    /\ calls' = Append(IF h = "vmware" THEN <<>> ELSE calls,
                       [handler |-> h, op |-> "find_vms", arg |-> directory'])

\* a method that keeps what it did in an attribute of self
self_after_remembering(attrs, op) == attrs \union {op}

\* attributes of the handler object after one of its methods ran: the
\* methods assign nothing to self
self_after(attrs, op) == attrs

\* the texts the user types into the directory entry
DirTexts(f) ==
    { <<>>,                                           \* nothing typed
      <<"a">>,                                        \* a
      <<"a", Slash>>,                                 \* a/
      <<Slash, "a">>,                                 \* /a
      <<"n">>,                                        \* n: no such directory
      <<"a", Slash>> \o f["f1"].name,                 \* a file
      <<"a", Slash>> \o f["b"].name,                  \* the inner directory
      <<"a", Slash>> \o f["b"].name \o <<Slash>> \o f["l"].name }  \* the link

\* the user types a directory and clicks "Find VMs": on_find_vms, up to the
\* first os.scandir
OnFindVms ==
    /\ pc = "idle"
    /\ \E text \in DirTexts(fs) : directory_entry' = text
    /\ directory' = directory_entry'
    /\ top_node' = Resolve(fs, directory')
    /\ request' = [op |-> "find_vms", row |-> 0, out |-> stdout, arg |-> directory']
    /\ outcome' = "none"
    /\ pc' = "walk_vmware"
    /\ WalkStart("vmware")
    /\ UNCHANGED <<fs, stdout, vm_list_store, selection, handlers, result, scanned>>

WalkingHandler == IF pc = "walk_vmware" THEN "vmware" ELSE "virtualbox"

\* one directory of os.walk: scandir, the split into dirs and files, the yield
\* to find_vms (which appends the matching files), and the subdirectories
\* queued for the walk
WalkStep ==
    /\ pc \in {"walk_vmware", "walk_virtualbox"}
    /\ stack # <<>>
    /\ LET top == Head(stack).path
           n == Head(stack).node
       IN IF ~ScanOk(fs, top, n)
          THEN IF walk_onerror = "ignore"
               THEN /\ stack' = Tail(stack)
                    /\ UNCHANGED <<vms, visited, pc, outcome>>
               ELSE /\ pc' = "idle"
                    /\ outcome' = "raised"
                    /\ stack' = <<>>
                    /\ UNCHANGED <<vms, visited>>
          ELSE \E order \in Orders(Children(fs, n)) :
                 LET isd(e) == is_dir(fs, e)
                     notd(e) == ~is_dir(fs, e)
                     dirs == SelectSeq(order, isd)
                     files == SelectSeq(order, notd)
                 IN /\ vms' = vms \o Matches(fs, top, files, HandlerExt(WalkingHandler))
                    /\ stack' = SubWalks(fs, top, dirs) \o Tail(stack)
                    /\ visited' = [visited EXCEPT ![n] = @ + 1]
                    /\ UNCHANGED <<pc, outcome>>
    /\ UNCHANGED <<fs, stdout, directory_entry, vm_list_store, selection, handlers,
                   directory, top_node, result, scanned, request, calls>>

\* vmware_handler.find_vms returns; virtualbox_handler.find_vms starts
FindReturnVMware ==
    /\ pc = "walk_vmware"
    /\ stack = <<>>
    /\ result' = [result EXCEPT !["vmware"] = vms]
    /\ scanned' = [scanned EXCEPT !["vmware"] = [done |-> TRUE, arg |-> directory]]
    /\ handlers' = [handlers EXCEPT !["vmware"] = self_after(@, "find_vms")]
    /\ pc' = "walk_virtualbox"
    /\ UNCHANGED <<directory, top_node>>
    /\ WalkStart("virtualbox")
    /\ UNCHANGED <<fs, stdout, directory_entry, vm_list_store, selection, request, outcome>>

\* on_find_vms without the call of clear()
clear_missing(store) == store

\* self.vm_list_store.clear()
clear(store) == <<>>

\* the rows on_find_vms appends for vm_paths
Rows(vm_paths) ==
    [i \in 1..Len(vm_paths) |-> [name |-> basename(vm_paths[i]), path |-> vm_paths[i]]]

\* virtualbox_handler.find_vms returns; on_find_vms concatenates the two
\* results, clears the list store and appends one row per path
FindReturnVirtualBox ==
    /\ pc = "walk_virtualbox"
    /\ stack = <<>>
    /\ result' = [result EXCEPT !["virtualbox"] = vms]
    /\ scanned' = [scanned EXCEPT !["virtualbox"] = [done |-> TRUE, arg |-> directory]]
    /\ handlers' = [handlers EXCEPT !["virtualbox"] = self_after(@, "find_vms")]
    /\ LET vm_paths == result["vmware"] \o vms
       IN vm_list_store' = clear(vm_list_store) \o Rows(vm_paths)
    /\ selection' = 0
    /\ outcome' = "returned"
    /\ pc' = "idle"
    /\ UNCHANGED <<fs, stdout, directory_entry, directory, top_node, stack, vms,
                   visited, request, calls>>

-----------------------------------------------------------------------------
(* start_vm, stop_vm and the dispatch of on_start_vm / on_stop_vm *)

\* print(text) returns normally: the stream works and can encode the text
print_ok(out, text) ==
    \/ out = "ok"
    \/ out = "ascii" /\ \A i \in 1..Len(text) : text[i] # NonAscii

\* str(e) of the exception a failed print raises: always ASCII
str_e == <<"e">>

\* try: print(f"... VM: {vm_name}"); return True
\* except Exception as e: print(f"Failed to ... VM: {e}"); return False
try_print(out, vm_name) ==
    IF print_ok(out, <<"V", "M", ":", " ">> \o vm_name) THEN "true"
    ELSE IF print_ok(out, <<"F", "a", "i", "l", "e", "d", ":", " ">> \o str_e) THEN "false"
    ELSE "raised"

\* VMwareHandler.start_vm / VirtualBoxHandler.start_vm
start_vm(h, vm_name, out) == try_print(out, vm_name)

\* VMwareHandler.stop_vm / VirtualBoxHandler.stop_vm
stop_vm(h, vm_name, out) == try_print(out, vm_name)

\* the two branches calling each other's handler
dispatch_swapped(vm_path) ==
    IF endswith(vm_path, Str_vmx) THEN "virtualbox"
    ELSE IF endswith(vm_path, Str_vbox) THEN "vmware"
    ELSE NoNode

\* a final else that sends every other path to the VirtualBox handler
dispatch_with_default(vm_path) ==
    IF endswith(vm_path, Str_vmx) THEN "vmware" ELSE "virtualbox"

\* the if / elif of on_start_vm and on_stop_vm: the handler a path is sent to
dispatch(vm_path) ==
    IF endswith(vm_path, Str_vmx) THEN "vmware"
    ELSE IF endswith(vm_path, Str_vbox) THEN "virtualbox"
    ELSE NoNode

\* on_start_vm (op = "start_vm") and on_stop_vm (op = "stop_vm")
OnStartStop(op) ==
    /\ pc = "idle"
    /\ request' = [op |-> op, row |-> selection, out |-> stdout,
                   arg |-> IF selection = 0 THEN <<>> ELSE vm_list_store[selection].path]
    /\ IF selection = 0
       THEN /\ calls' = <<>>
            /\ outcome' = "none"
            /\ UNCHANGED handlers
       ELSE LET vm_path == vm_list_store[selection].path
                h == dispatch(vm_path)
            IN IF h = NoNode
               THEN /\ calls' = <<>>
                    /\ outcome' = "none"
                    /\ UNCHANGED handlers
               ELSE /\ calls' = <<[handler |-> h, op |-> op, arg |-> vm_path]>>
                    /\ outcome' = IF op = "start_vm" THEN start_vm(h, vm_path, stdout)
                                  ELSE stop_vm(h, vm_path, stdout)
                    /\ handlers' = [handlers EXCEPT ![h] = self_after(@, op)]
    /\ UNCHANGED <<fs, stdout, directory_entry, vm_list_store, selection, pc,
                   directory, top_node, stack, vms, visited, result, scanned>>

OnStartVm == OnStartStop("start_vm")

OnStopVm == OnStartStop("stop_vm")

-----------------------------------------------------------------------------
(* The user and the environment *)

\* the user selects a row of the list, or clears the selection
Select ==
    /\ pc = "idle"
    /\ \E i \in 0..Len(vm_list_store) : selection' = i
    /\ UNCHANGED <<fs, stdout, directory_entry, vm_list_store, handlers, pc, directory,
                   top_node, stack, vms, visited, result, scanned, request, calls, outcome>>

\* the output stream stops accepting writes (closed terminal, full device)
StdoutBreaks ==
    /\ pc = "idle"
    /\ stdout # "broken"
    /\ stdout' = "broken"
    /\ UNCHANGED <<fs, directory_entry, vm_list_store, selection, handlers, pc, directory,
                   top_node, stack, vms, visited, result, scanned, request, calls, outcome>>

NoRequest == [op |-> "none", row |-> 0, out |-> "ok", arg |-> <<>>]

\* VMManagerApp.__init__ and create_ui: two handlers without attributes, an
\* empty entry, an empty list store, nothing selected
Init ==
    /\ fs \in Trees
    /\ stdout \in {"ok", "ascii"}
    /\ directory_entry = <<>>
    /\ vm_list_store = <<>>
    /\ selection = 0
    /\ handlers = [h \in Handlers |-> {}]
    /\ pc = "idle"
    /\ directory = <<>>
    /\ top_node = NoNode
    /\ stack = <<>>
    /\ vms = <<>>
    /\ visited = [n \in Nodes |-> 0]
    /\ result = [h \in Handlers |-> <<>>]
    /\ scanned = [h \in Handlers |-> [done |-> FALSE, arg |-> <<>>]]
    /\ request = NoRequest
    /\ calls = <<>>
    /\ outcome = "none"

Next ==
    \/ OnFindVms
    \/ WalkStep
    \/ FindReturnVMware
    \/ FindReturnVirtualBox
    \/ Select
    \/ OnStartVm
    \/ OnStopVm
    \/ StdoutBreaks

Spec == Init /\ [][Next]_vars

\* the steps of a running on_find_vms
ScanStep == WalkStep \/ FindReturnVMware \/ FindReturnVirtualBox

\* a callback that has started runs on: the scan is synchronous and nothing
\* else runs on the thread until it returns
FairSpec == Spec /\ WF_vars(ScanStep)

-----------------------------------------------------------------------------
(* The dispatcher on arbitrary records: the list store filled by hand *)

MaxRows == 2

\* paths of records, with and without a known extension
AnyPaths ==
    { <<"a", Slash, "x">> \o Str_vmx,        \* a/x.vmx
      <<"y">> \o Str_vbox,                   \* y.vbox
      <<"x">> \o Str_vbox \o Str_vmx,        \* x.vbox.vmx
      <<"a", Slash, "r", ".", "t">>,         \* a/r.t
      <<"x">> \o Str_vmx \o <<Slash>>,       \* x.vmx/
      <<"x", ".", "V", "B", "O", "X">>,      \* x.VBOX
      <<"v", "m", "x">>,                     \* vmx
      <<>> }                                 \* the empty path

AnyStores ==
    UNION { [1..k -> {[name |-> basename(q), path |-> q] : q \in AnyPaths}] : k \in 1..MaxRows }

InitDispatch ==
    /\ fs = Tree(<<"x">> \o Str_vmx, <<"b">>, <<"y">> \o Str_vbox, "a", TRUE, TRUE)
    /\ stdout \in {"ok", "ascii"}
    /\ directory_entry = <<>>
    /\ vm_list_store \in AnyStores
    /\ selection = 0
    /\ handlers = [h \in Handlers |-> {}]
    /\ pc = "idle"
    /\ directory = <<>>
    /\ top_node = NoNode
    /\ stack = <<>>
    /\ vms = <<>>
    /\ visited = [n \in Nodes |-> 0]
    /\ result = [h \in Handlers |-> <<>>]
    /\ scanned = [h \in Handlers |-> [done |-> FALSE, arg |-> <<>>]]
    /\ request = NoRequest
    /\ calls = <<>>
    /\ outcome = "none"

NextDispatch ==
    \/ Select
    \/ OnStartVm
    \/ OnStopVm
    \/ StdoutBreaks

SpecDispatch == InitDispatch /\ [][NextDispatch]_vars

-----------------------------------------------------------------------------
(* Vocabulary of the properties *)

SetOf(q) == {q[i] : i \in 1..Len(q)}

NoRepeat(q) == \A i, j \in 1..Len(q) : q[i] = q[j] => i = j

\* s is some string followed by suf
IsSuffix(s, suf) == \E k \in 0..Len(s) : s = SubSeq(s, 1, k) \o suf

ExtVmx == <<".", "v", "m", "x">>
ExtVbox == <<".", "v", "b", "o", "x">>
ExtOf(h) == IF h = "vmware" THEN ExtVmx ELSE ExtVbox

\* d is t or a real (not symbolically linked) subdirectory of t, at any depth
RECURSIVE InTree(_, _, _)
InTree(f, t, d) ==
    \/ d = t
    \/ /\ f[d].parent # NoNode
       /\ f[d].kind = "dir"
       /\ InTree(f, t, f[d].parent)

\* as InTree, and d and every directory from t down to d can be read
RECURSIVE Reached(_, _, _)
Reached(f, t, d) ==
    /\ f[d].readable
    /\ \/ d = t
       \/ /\ f[d].parent # NoNode
          /\ f[d].kind = "dir"
          /\ Reached(f, t, f[d].parent)

\* the full path of node n of the tree at t, for t given as the string top
RECURSIVE PathIn(_, _, _, _)
PathIn(f, top, t, n) ==
    IF n = t THEN top
    ELSE LET up == PathIn(f, top, t, f[n].parent)
         IN (IF up[Len(up)] = Slash THEN up ELSE Append(up, Slash)) \o f[n].name

\* n is a file: a regular file, or a link that does not lead to a directory
IsFile(f, n) ==
    \/ f[n].kind = "file"
    \/ f[n].kind = "link" /\ (FollowLinks(f, n, {}) = NoNode \/ f[FollowLinks(f, n, {})].kind # "dir")

\* the directory a text names, NoNode when it names none
TopOf(f, top) ==
    LET t == Resolve(f, top) IN
    IF t # NoNode /\ f[t].kind = "dir" THEN t ELSE NoNode

\* full paths of all files of the tree at top whose name ends with ext
AllFilePaths(f, top, ext) ==
    LET t == TopOf(f, top) IN
    IF t = NoNode THEN {}
    ELSE { PathIn(f, top, t, n) :
             n \in {m \in Nodes : /\ IsFile(f, m)
                                  /\ InTree(f, t, f[m].parent)
                                  /\ IsSuffix(f[m].name, ext)} }

\* the same, for the files in directories that can be read from top down
ReadableFilePaths(f, top, ext) ==
    LET t == TopOf(f, top) IN
    IF t = NoNode THEN {}
    ELSE { PathIn(f, top, t, n) :
             n \in {m \in Nodes : /\ IsFile(f, m)
                                  /\ Reached(f, t, f[m].parent)
                                  /\ IsSuffix(f[m].name, ext)} }

IsCommand == request.op \in {"start_vm", "stop_vm"} /\ request.row # 0

WalkComplete == pc \in {"walk_vmware", "walk_virtualbox"} /\ stack = <<>>

-----------------------------------------------------------------------------
(* Properties *)

\* C1 (as stated): for a directory that exists and can be read, find_vms of
\* each handler returns exactly the full paths of all files of the tree, at
\* any depth, whose name ends with the handler's extension, each exactly once.
C1_AllFiles ==
    \A h \in Handlers :
        (scanned[h].done /\ CanScan(fs, scanned[h].arg)) =>
            /\ NoRepeat(result[h])
            /\ SetOf(result[h]) = AllFilePaths(fs, scanned[h].arg, ExtOf(h))

\* C1 (amended): find_vms of each handler returns exactly the full paths of
\* the files whose name ends with the handler's extension and that lie in
\* the given directory or in a real subdirectory of it, where that directory
\* and every directory above it up to the given one can be read; each such
\* path exactly once, and no other path.
C1_ReadableFiles ==
    \A h \in Handlers :
        scanned[h].done =>
            /\ NoRepeat(result[h])
            /\ SetOf(result[h]) = ReadableFilePaths(fs, scanned[h].arg, ExtOf(h))

C1_Witness ==
    /\ \A h \in Handlers : scanned[h].done /\ scanned[h].arg = <<"a">>
    /\ fs["a"].readable /\ ~fs["b"].readable
    /\ Len(result["vmware"]) = 1
    /\ result["virtualbox"] = <<>>

\* C2: for a directory that does not exist or cannot be read, find_vms of
\* either handler returns the empty sequence, and the scan raises no error.
C2_MissingDirectoryEmpty ==
    /\ \A h \in Handlers :
         (scanned[h].done /\ ~CanScan(fs, scanned[h].arg)) => result[h] = <<>>
    /\ request.op = "find_vms" => outcome # "raised"

C2_Witness ==
    /\ pc = "idle"
    /\ request.op = "find_vms"
    /\ outcome = "returned"
    /\ Resolve(fs, request.arg) = NoNode
    /\ \A h \in Handlers : scanned[h].done /\ scanned[h].arg = request.arg

\* C3: start_vm and stop_vm never let an exception reach the caller: a call
\* always ends with a boolean, whatever fails inside, the output included.
C3_AlwaysBoolean ==
    (request.op \in {"start_vm", "stop_vm"} /\ calls # <<>>) => outcome \in {"true", "false"}

\* C4: a start (stop) request on a record whose path ends with a known
\* extension invokes exactly one handler operation: start_vm (stop_vm) of
\* the handler of that extension, once, with the record's path.
C4_ExactlyTheMatchingHandler ==
    IsCommand =>
        /\ vm_list_store[request.row].path = request.arg
        /\ IsSuffix(request.arg, ExtVmx) =>
             calls = <<[handler |-> "vmware", op |-> request.op, arg |-> request.arg]>>
        /\ IsSuffix(request.arg, ExtVbox) =>
             calls = <<[handler |-> "virtualbox", op |-> request.op, arg |-> request.arg]>>

C4_Witness ==
    /\ IsCommand
    /\ request.op = "stop_vm"
    /\ IsSuffix(request.arg, ExtVbox)
    /\ Len(calls) = 1

\* C5: a start or stop request on a record whose path ends with neither
\* extension invokes no handler operation, raises nothing and changes
\* neither the list, the selection, the handlers nor the output stream.
C5_DispatchMissNoOp ==
    /\ [](( /\ IsCommand
            /\ ~IsSuffix(request.arg, ExtVmx)
            /\ ~IsSuffix(request.arg, ExtVbox) )
          => (calls = <<>> /\ outcome = "none"))
    /\ [][ ( /\ request' # request
             /\ request'.row # 0
             /\ ~IsSuffix(request'.arg, ExtVmx)
             /\ ~IsSuffix(request'.arg, ExtVbox) )
           => UNCHANGED <<vm_list_store, selection, handlers, stdout, fs, pc>> ]_vars

C5_Witness ==
    /\ IsCommand
    /\ request.op = "start_vm"
    /\ request.arg = <<"x">> \o ExtVmx \o <<Slash>>
    /\ calls = <<>>

\* C6: between callbacks, once a scan has run, the list shows exactly the
\* last scan: the paths the VMware handler returned for the directory given
\* last, then those the VirtualBox handler returned for it, all of them
\* files of that directory's tree, and no row of an earlier scan.
C6_ListIsLastScan ==
    (pc = "idle" /\ scanned["virtualbox"].done) =>
        /\ \A h \in Handlers : scanned[h].arg = directory_entry
        /\ [i \in 1..Len(vm_list_store) |-> vm_list_store[i].path]
              = result["vmware"] \o result["virtualbox"]
        /\ { vm_list_store[i].path : i \in 1..Len(vm_list_store) }
              = ReadableFilePaths(fs, directory_entry, ExtVmx)
                  \union ReadableFilePaths(fs, directory_entry, ExtVbox)
        /\ \A i, j \in 1..Len(vm_list_store) :
              (IsSuffix(vm_list_store[i].path, ExtVbox) /\ IsSuffix(vm_list_store[j].path, ExtVmx))
                 => j < i

C6_Witness ==
    /\ pc = "idle"
    /\ scanned["virtualbox"].done
    /\ Len(vm_list_store) >= 2
    /\ Len(result["vmware"]) >= 1
    /\ Len(result["virtualbox"]) >= 1

\* C7: no path ends with both extensions, no path is returned by both
\* handlers, and the list holds no path twice.
C7_ExtensionsExclusive ==
    /\ \A i \in 1..Len(vm_list_store) :
          ~(IsSuffix(vm_list_store[i].path, ExtVmx) /\ IsSuffix(vm_list_store[i].path, ExtVbox))
    /\ SetOf(result["vmware"]) \intersect SetOf(result["virtualbox"]) = {}
    /\ \A i, j \in 1..Len(vm_list_store) :
          vm_list_store[i].path = vm_list_store[j].path => i = j

C7_Witness ==
    /\ pc = "idle"
    /\ \E i, j \in 1..Len(vm_list_store) :
          /\ IsSuffix(vm_list_store[i].path, ExtVmx)
          /\ IsSuffix(vm_list_store[j].path, ExtVbox)
    /\ scanned["vmware"].arg = scanned["virtualbox"].arg

C9_EverySubdirectoryOnce ==
    (WalkComplete /\ CanScan(fs, directory)) =>
        \A d \in Nodes :
            (d # TopOf(fs, directory) /\ InTree(fs, TopOf(fs, directory), d))
            => visited[d] = 1

\* C9 (amended): every scan terminates, also on trees with a cycle of
\* symbolic links; no directory is ever visited twice; and when a walk ends
\* it has visited exactly once the given directory and each real
\* subdirectory that can be read and lies below readable directories only,
\* and has visited nothing else (no directory behind a symbolic link, no
\* directory that is or lies below an unreadable one).
C9_WalkTerminates ==
    /\ (pc # "idle") ~> (pc = "idle")
    /\ [](\A d \in Nodes : visited[d] <= 1)
    /\ [](WalkComplete =>
            \A d \in Nodes :
                visited[d] = IF /\ TopOf(fs, directory) # NoNode
                                /\ Reached(fs, TopOf(fs, directory), d)
                             THEN 1 ELSE 0)

C9_Witness ==
    /\ WalkComplete
    /\ fs["l"].target = "a"
    /\ visited["a"] = 1
    /\ visited["b"] = 1

\* C10: every row of the list has as name the last component of its path,
\* and a path ending with one of the two extensions; so a start or stop
\* request on a listed record invokes exactly one handler operation.
C10_ListedRecordsDispatch ==
    /\ \A i \in 1..Len(vm_list_store) :
          LET r == vm_list_store[i] IN
          /\ \A k \in 1..Len(r.name) : r.name[k] # Slash
          /\ \/ r.path = r.name
             \/ IsSuffix(r.path, <<Slash>> \o r.name)
          /\ IsSuffix(r.path, ExtVmx) \/ IsSuffix(r.path, ExtVbox)
    /\ IsCommand => Len(calls) = 1

C10_Witness ==
    /\ IsCommand
    /\ request.op = "start_vm"
    /\ Len(calls) = 1
    /\ Len(vm_list_store) >= 2
    /\ \E k \in 1..Len(request.arg) : request.arg[k] = NonAscii

====
